---- MODULE Spec2Model ----
(***************************************************************************)
(* Model of src/internal/pool.js: the key-partitioned resource pool of the *)
(* driver (class Pool, class PendingRequest and the two counter helpers). *)
(*                                                                         *)
(* JavaScript runs the pool on one event loop.  A synchronous run of a    *)
(* method is one atomic step.  A promise reaction (a .then/.catch         *)
(* callback) is a job of the microtask queue mq, run in FIFO order; a      *)
(* timer callback runs only when the microtask queue is empty.  The        *)
(* factory's promise settles at a moment the pool does not control.        *)
(***************************************************************************)
EXTENDS Integers, Sequences, FiniteSets, TLC

\* ---- bounds of the model ------------------------------------------------
MaxCalls == 3           \* acquire(key) calls issued in one behaviour
MaxResources == 3       \* resources the factory produces in one behaviour
MaxCallsFifo == 4       \* the same two bounds for the behaviours with two
MaxResourcesFifo == 2   \*   requests queued behind two resource holders
MaxCallsLive == 2       \* the same two bounds for the behaviours checked
MaxResourcesLive == 2   \*   under the event loop's fairness
MaxCallsDouble == 2     \* the same two bounds for the behaviours in which
MaxResourcesDouble == 2 \*   callers release a resource a second time
MaxCallsKeys == 2       \* the same two bounds for the behaviours of a pool
MaxResourcesKeys == 2   \*   used with the two keys of Keys

Keys == {"A", "B"}
OneKey == {"A"}
MaxSizes == {0, 1, 2}   \* the values of config.maxSize explored (0: no limit)

VARIABLES
  maxSize,               \* this._maxSize
  pools,                 \* this._pools: key -> idle list (a stack, top = last)
  acquireRequests,       \* this._acquireRequests: key -> queue of PendingRequests
  activeResourceCounts,  \* this._activeResourceCounts: key -> count
  request,               \* the PendingRequest objects: call -> [completed, timeoutId, calls]
  mq,                    \* the microtask queue: promise reaction jobs
  creating,              \* factory promises not yet settled
  callKey,               \* callKey[c]: the key of the c-th acquire call
  results,               \* results[c]: what the caller of the c-th acquire was given
  created,               \* created[r]: the key the factory produced resource r for
  broken,                \* resources for which validate returns false
  held,                  \* held[r]: hand-outs of r to callers not yet released
  destroyed,             \* destroyed[r]: the calls of destroy(r)
  recycled,              \* resources obtained for a request that had been completed
  stale                  \* resources that were checked out when their key was
                         \*   purged and have not been destroyed since

vars == <<maxSize, pools, acquireRequests, activeResourceCounts,
          request, mq, creating, callKey, results, created, broken, held,
          destroyed, recycled, stale>>
\* ---- the mutable state the methods work on, as one record ----------------
St ==
  [pools |-> pools, acquireRequests |-> acquireRequests,
   activeResourceCounts |-> activeResourceCounts, request |-> request,
   mq |-> mq, creating |-> creating, results |-> results, held |-> held,
   destroyed |-> destroyed, recycled |-> recycled, broken |-> broken,
   stale |-> stale]

Apply(s) ==
  /\ pools' = s.pools
  /\ acquireRequests' = s.acquireRequests
  /\ activeResourceCounts' = s.activeResourceCounts
  /\ request' = s.request
  /\ mq' = s.mq
  /\ creating' = s.creating
  /\ results' = s.results
  /\ held' = s.held
  /\ destroyed' = s.destroyed
  /\ recycled' = s.recycled
  /\ broken' = s.broken
  /\ stale' = s.stale

\* a JavaScript object used as a map: a function whose domain is the keys present
NoEntries == [k \in {} |-> 0]
Put(obj, key, value) == (key :> value) @@ obj
Delete(obj, key) == [k \in (DOMAIN obj) \ {key} |-> obj[k]]

\* ---- the injected collaborators -----------------------------------------
\* this._validate(resource)
validate(s, resource) == resource \notin s.broken

\* this._destroy(resource): how is "evicted" for the call in the pop loop of
\* _acquire (line 151) and "destroyed" for the calls of _release and purge
destroy(s, resource, how) ==
  [s EXCEPT !.destroyed[resource] = Append(@, how), !.stale = @ \ {resource}]

\* the caller's promise callbacks: the future of acquire call c settles with
\* a resource ("resource"), the factory's error ("factoryError") or the
\* acquisition-timeout error ("timeout"); a caller given a resource holds it
DeliverResource(s, c, resource) ==
  [s EXCEPT !.results[c] = Append(@, "resource"), !.held[resource] = @ + 1]

DeliverError(s, c, error) == [s EXCEPT !.results[c] = Append(@, error)]

\* ---- the counter helpers --------------------------------------------------
activeResourceCount(s, key) ==
  IF key \in DOMAIN s.activeResourceCounts THEN s.activeResourceCounts[key] ELSE 0

resourceAcquired(key, counts) ==
  LET currentCount == IF key \in DOMAIN counts THEN counts[key] ELSE 0
  IN  Put(counts, key, currentCount + 1)

resourceReleased(key, counts) ==
  LET currentCount == IF key \in DOMAIN counts THEN counts[key] ELSE 0
      nextCount == currentCount - 1
  IN  IF nextCount > 0 THEN Put(counts, key, nextCount) ELSE Delete(counts, key)

\* ---- class PendingRequest -------------------------------------------------
\* calls: how many times resolve or reject has been called on the request
NewPendingRequestUnarmed == [completed |-> FALSE, timeoutId |-> "off", calls |-> 0]

NewPendingRequest == [completed |-> FALSE, timeoutId |-> "armed", calls |-> 0]

isCompleted(s, c) == s.request[c].completed

\* clearTimeout(this._timeoutId): the timer is "armed" until it fires or is cleared
clearTimeout(timeoutId) == "off"

\* resolve without clearTimeout (line 271 left out)
PendingRequest_resolveKeepingTimer(s, c, resource) ==
  LET s1 == [s EXCEPT !.request[c].calls = @ + 1]
  IN  IF s1.request[c].completed
        THEN s1
        ELSE DeliverResource([s1 EXCEPT !.request[c].completed = TRUE], c, resource)

PendingRequest_resolve(s, c, resource) ==
  LET s1 == [s EXCEPT !.request[c].calls = @ + 1]
  IN  IF s1.request[c].completed
        THEN s1
        ELSE DeliverResource(
               [s1 EXCEPT !.request[c].completed = TRUE,
                          !.request[c].timeoutId = clearTimeout(@)],
               c, resource)

\* reject without the check of the completed flag (lines 279-281 left out)
PendingRequest_rejectUnchecked(s, c, error) ==
  DeliverError(
    [s EXCEPT !.request[c].calls = @ + 1, !.request[c].completed = TRUE,
              !.request[c].timeoutId = clearTimeout(@)],
    c, error)

PendingRequest_reject(s, c, error) ==
  LET s1 == [s EXCEPT !.request[c].calls = @ + 1]
  IN  IF s1.request[c].completed
        THEN s1
        ELSE DeliverError(
               [s1 EXCEPT !.request[c].completed = TRUE,
                          !.request[c].timeoutId = clearTimeout(@)],
               c, error)

\* ---- class Pool -------------------------------------------------------------
\* the promise reaction jobs of the microtask queue: the callback kind of call c
\* runs with the outcome (resource, with 0 for null, or rejected) of the promise
\* that _acquire returned: Promise.resolve(...) ("resolved") or the factory's
Job(kind, c, promise, resource, rejected) ==
  [kind |-> kind, call |-> c, promise |-> promise, resource |-> resource,
   rejected |-> rejected]

\* the pop loop without the validate call of line 147
PopIdleUnvalidated(s, key) ==
  LET pool == s.pools[key]
  IN  IF Len(pool) = 0
        THEN [st |-> s, resource |-> 0]
        ELSE [st |-> [s EXCEPT !.pools[key] = SubSeq(pool, 1, Len(pool) - 1)],
              resource |-> pool[Len(pool)]]

\* the pop loop taking the oldest idle resource: shift for the pop of line 145
RECURSIVE PopIdleOldest(_, _)
PopIdleOldest(s, key) ==
  LET pool == s.pools[key]
  IN  IF Len(pool) = 0
        THEN [st |-> s, resource |-> 0]
        ELSE LET resource == Head(pool)
                 s1 == [s EXCEPT !.pools[key] = Tail(pool)]
             IN  IF validate(s1, resource)
                   THEN [st |-> s1, resource |-> resource]
                   ELSE PopIdleOldest(destroy(s1, resource, "evicted"), key)

\* the pop loop of _acquire: the popped resource (0 when the list ran empty)
RECURSIVE PopIdle(_, _)
PopIdle(s, key) ==
  LET pool == s.pools[key]
  IN  IF Len(pool) = 0
        THEN [st |-> s, resource |-> 0]
        ELSE LET resource == pool[Len(pool)]
                 s1 == [s EXCEPT !.pools[key] = SubSeq(pool, 1, Len(pool) - 1)]
             IN  IF validate(s1, resource)
                   THEN [st |-> s1, resource |-> resource]
                   ELSE PopIdle(destroy(s1, resource, "evicted"), key)

\* _acquire with the capacity check of line 155 off by one (> for >=)
_acquireAboveCapacity(s, key) ==
  LET s1 == IF key \in DOMAIN s.pools THEN s ELSE [s EXCEPT !.pools = Put(@, key, <<>>)]
      popped == PopIdle(s1, key)
  IN  IF popped.resource # 0
        THEN [st |-> popped.st, promise |-> "resolved", resource |-> popped.resource]
        ELSE IF maxSize # 0 /\ activeResourceCount(popped.st, key) > maxSize
          THEN [st |-> popped.st, promise |-> "resolved", resource |-> 0]
          ELSE [st |-> popped.st, promise |-> "factory", resource |-> 0]

\* _acquire(key), its synchronous run: the promise it returns is
\*   "resolved" with an idle resource, "resolved" with null (resource 0),
\*   or the "factory" promise of this._create
_acquire(s, key) ==
  LET s1 == IF key \in DOMAIN s.pools THEN s ELSE [s EXCEPT !.pools = Put(@, key, <<>>)]
      popped == PopIdle(s1, key)
  IN  IF popped.resource # 0
        THEN [st |-> popped.st, promise |-> "resolved", resource |-> popped.resource]
        ELSE IF maxSize # 0 /\ activeResourceCount(popped.st, key) >= maxSize
          THEN [st |-> popped.st, promise |-> "resolved", resource |-> 0]
          ELSE [st |-> popped.st, promise |-> "factory", resource |-> 0]

\* acquire(key), its synchronous run: _acquire(key).then(...)
acquire(s, c, key) ==
  LET a == _acquire(s, key)
  IN  IF a.promise = "factory"
        THEN [a.st EXCEPT !.creating = @ \cup {[chain |-> "acquire", call |-> c]}]
        ELSE [a.st EXCEPT !.mq = Append(@, Job("acquireThen", c, "resolved", a.resource, FALSE))]

\* the callback acquire passes to .then (lines 57-97)
acquireThen(s, c, key, resource) ==
  IF resource # 0
    THEN DeliverResource([s EXCEPT !.activeResourceCounts = resourceAcquired(key, @)],
                         c, resource)
    ELSE LET s1 == IF key \in DOMAIN s.acquireRequests
                     THEN s
                     ELSE [s EXCEPT !.acquireRequests = Put(@, key, <<>>)]
         IN  [s1 EXCEPT !.request = Put(@, c, NewPendingRequest),
                        !.acquireRequests[key] = Append(@, c)]

\* a rejected factory promise passes through acquire's .then to the caller
acquireRejected(s, c) == DeliverError(s, c, "factoryError")

\* the timeout callback of acquire (lines 76-92)
RemoveRequest(requests, c) == SelectSeq(requests, LAMBDA item : item # c)

\* the timeout callback leaving the request in the queue (lines 81-84 left out)
acquireTimeoutKeepingQueued(s, c, key) ==
  LET s1 == [s EXCEPT !.request[c].timeoutId = "off"]
  IN  IF isCompleted(s1, c) THEN s1 ELSE PendingRequest_reject(s1, c, "timeout")

\* the timeout callback without request.reject (line 90 left out)
acquireTimeoutSilent(s, c, key) ==
  LET s1 == [s EXCEPT !.request[c].timeoutId = "off"]
  IN  IF key \in DOMAIN s1.acquireRequests
        THEN [s1 EXCEPT !.acquireRequests[key] = RemoveRequest(@, c)]
        ELSE s1

acquireTimeout(s, c, key) ==
  LET s1 == [s EXCEPT !.request[c].timeoutId = "off"]
      s2 == IF key \in DOMAIN s1.acquireRequests
              THEN [s1 EXCEPT !.acquireRequests[key] = RemoveRequest(@, c)]
              ELSE s1
  IN  IF isCompleted(s2, c) THEN s2 ELSE PendingRequest_reject(s2, c, "timeout")

\* purge(key)
RECURSIVE DestroyAll(_, _)
DestroyAll(s, pool) ==
  IF Len(pool) = 0 THEN s
  ELSE DestroyAll(destroy(s, pool[Len(pool)], "destroyed"), SubSeq(pool, 1, Len(pool) - 1))

\* purge without line 110: the entry of the key stays in this._pools
purgeKeepingEntry(s, key) ==
  LET pool == IF key \in DOMAIN s.pools THEN s.pools[key] ELSE <<>>
      s1 == DestroyAll(s, pool)
  IN  IF key \in DOMAIN s1.pools THEN [s1 EXCEPT !.pools[key] = <<>>] ELSE s1

purge(s, key) ==
  LET pool == IF key \in DOMAIN s.pools THEN s.pools[key] ELSE <<>>
      s1 == DestroyAll(s, pool)
  IN  [s1 EXCEPT !.pools = Delete(@, key)]

\* purgeAll(): purge(key) for each key of Object.keys(this._pools)
RECURSIVE PurgeKeys(_, _)
PurgeKeys(s, keySet) ==
  IF keySet = {} THEN s
  ELSE LET key == CHOOSE k \in keySet : TRUE
       IN  PurgeKeys(purge(s, key), keySet \ {key})

purgeAll(s) == PurgeKeys(s, DOMAIN s.pools)

\* has(key)
has(s, key) == key \in DOMAIN s.pools

\* _processPendingAcquireRequests(key), its synchronous run
_processPendingAcquireRequests(s, key) ==
  IF key \in DOMAIN s.acquireRequests
    THEN LET requests == s.acquireRequests[key]
         IN  IF Len(requests) > 0
               THEN LET pendingRequest == Head(requests)
                        s1 == [s EXCEPT !.acquireRequests[key] = Tail(requests)]
                        a == _acquire(s1, key)
                    IN  IF a.promise = "factory"
                          THEN [a.st EXCEPT !.creating =
                                  @ \cup {[chain |-> "process", call |-> pendingRequest]}]
                          ELSE [a.st EXCEPT !.mq =
                                  Append(@, Job("processCatch", pendingRequest, "resolved", a.resource, FALSE))]
               ELSE [s EXCEPT !.acquireRequests = Delete(@, key)]
    ELSE s

\* _release(key, resource)
_release(s, key, resource) ==
  LET s1 == IF key \in DOMAIN s.pools
              THEN IF ~validate(s, resource)
                     THEN destroy(s, resource, "destroyed")
                     ELSE [s EXCEPT !.pools[key] = Append(@, resource)]
              ELSE destroy(s, resource, "destroyed")
      s2 == [s1 EXCEPT !.activeResourceCounts = resourceReleased(key, @)]
  IN  _processPendingAcquireRequests(s2, key)

\* the .catch callback swallowing the error: pendingRequest.reject left out
processCatchSwallowing(s, c, promise, resource, rejected) ==
  [s EXCEPT !.mq = Append(@, Job("processThen", c, promise,
                                 IF rejected THEN 0 ELSE resource, FALSE))]

\* the .catch callback of _processPendingAcquireRequests (lines 198-203)
processCatch(s, c, promise, resource, rejected) ==
  IF rejected
    THEN LET s1 == PendingRequest_reject(s, c, "factoryError")
         IN  [s1 EXCEPT !.mq = Append(@, Job("processThen", c, promise, 0, FALSE))]
    ELSE [s EXCEPT !.mq = Append(@, Job("processThen", c, promise, resource, FALSE))]

\* the .then callback dropping the resource of a completed request: line 211
\* left out
processThenDropping(s, c, key, resource) ==
  IF resource # 0 /\ ~isCompleted(s, c)
    THEN PendingRequest_resolve(
           [s EXCEPT !.activeResourceCounts = resourceAcquired(key, @)], c, resource)
    ELSE s

\* the .then callback without the isCompleted check of line 208
processThenResolving(s, c, key, resource) ==
  IF resource # 0
    THEN PendingRequest_resolve(
           [s EXCEPT !.activeResourceCounts = resourceAcquired(key, @)], c, resource)
    ELSE s

\* the .then callback of _processPendingAcquireRequests (lines 204-218)
processThen(s, c, key, resource) ==
  IF resource # 0
    THEN IF isCompleted(s, c)
           THEN _release([s EXCEPT !.recycled = @ \cup {resource}], key, resource)
           ELSE PendingRequest_resolve(
                  [s EXCEPT !.activeResourceCounts = resourceAcquired(key, @)],
                  c, resource)
    ELSE s

\* ---- the state machine ----------------------------------------------------
Init ==
  /\ maxSize \in MaxSizes
  /\ pools = NoEntries
  /\ acquireRequests = NoEntries
  /\ activeResourceCounts = NoEntries
  /\ request = NoEntries
  /\ mq = <<>>
  /\ creating = {}
  /\ callKey = <<>>
  /\ results = <<>>
  /\ created = <<>>
  /\ broken = {}
  /\ held = <<>>
  /\ destroyed = <<>>
  /\ recycled = {}
  /\ stale = {}

Calls == 1..Len(callKey)
Resources == 1..Len(created)

\* a caller calls pool.acquire(key)
Acquire(key, maxCalls) ==
  /\ Len(callKey) < maxCalls
  /\ callKey' = Append(callKey, key)
  /\ Apply(acquire([St EXCEPT !.results = Append(@, <<>>)], Len(callKey) + 1, key))
  /\ UNCHANGED <<maxSize, created>>

\* the factory's promise is fulfilled with a new resource
FactoryResolve(p, maxResources) ==
  /\ p \in creating
  /\ Len(created) < maxResources
  /\ LET resource == Len(created) + 1
         s == [St EXCEPT !.creating = @ \ {p}, !.held = Append(@, 0),
                         !.destroyed = Append(@, <<>>)]
     IN  /\ created' = Append(created, callKey[p.call])
         /\ IF p.chain = "acquire"
              THEN Apply([s EXCEPT !.mq = Append(@, Job("acquireThen", p.call, "factory", resource, FALSE))])
              ELSE Apply([s EXCEPT !.mq = Append(@, Job("processCatch", p.call, "factory", resource, FALSE))])
  /\ UNCHANGED <<maxSize, callKey>>

\* the factory's promise is rejected
FactoryReject(p) ==
  /\ p \in creating
  /\ LET s == [St EXCEPT !.creating = @ \ {p}]
     IN  IF p.chain = "acquire"
           THEN Apply([s EXCEPT !.mq = Append(@, Job("acquireRejected", p.call, "factory", 0, TRUE))])
           ELSE Apply([s EXCEPT !.mq = Append(@, Job("processCatch", p.call, "factory", 0, TRUE))])
  /\ UNCHANGED <<maxSize, callKey, created>>

\* the event loop runs the oldest promise reaction job
RunJob(s, job) ==
  CASE job.kind = "acquireThen" -> acquireThen(s, job.call, callKey[job.call], job.resource)
    [] job.kind = "acquireRejected" -> acquireRejected(s, job.call)
    [] job.kind = "processCatch" -> processCatch(s, job.call, job.promise, job.resource, job.rejected)
    [] job.kind = "processThen" -> processThen(s, job.call, callKey[job.call], job.resource)

Microtask ==
  /\ mq # <<>>
  /\ Apply(RunJob([St EXCEPT !.mq = Tail(mq)], Head(mq)))
  /\ UNCHANGED <<maxSize, callKey, created>>

\* the acquisition timer of request c fires: a timer callback starts only when
\* no promise reaction job is waiting
Timeout(c) ==
  /\ c \in DOMAIN request
  /\ request[c].timeoutId = "armed"
  /\ mq = <<>>
  /\ Apply(acquireTimeout(St, c, callKey[c]))
  /\ UNCHANGED <<maxSize, callKey, created>>

\* a caller that holds resource gives it back: the release hook bound at line 160.
\* Nothing looks at a resource while a caller holds it, so whether it stopped
\* being functional in the caller's hands (working = FALSE) shows only now
Release(resource, working) ==
  /\ held[resource] > 0
  /\ Apply(_release([St EXCEPT !.held[resource] = @ - 1,
                                !.broken = IF working THEN @ ELSE @ \cup {resource}],
                    created[resource], resource))
  /\ UNCHANGED <<maxSize, callKey, created>>

\* a caller calls pool.purge(key)
CheckedOut(key) == {r \in Resources : created[r] = key /\ held[r] > 0}

Purge(key) ==
  /\ Apply(purge([St EXCEPT !.stale = @ \cup CheckedOut(key)], key))
  /\ UNCHANGED <<maxSize, callKey, created>>

\* a caller calls pool.purgeAll()
PurgeAll ==
  /\ Apply(purgeAll([St EXCEPT !.stale =
                        @ \cup UNION {CheckedOut(key) : key \in DOMAIN pools}]))
  /\ UNCHANGED <<maxSize, callKey, created>>

\* a resource stops being functional: validate returns false for it from now
\* on.  This is a step of its own where a later validate call can see it: for
\* an idle resource and for one that a reaction job of
\* _processPendingAcquireRequests carries (Release covers a held resource, and
\* acquire's .then callback hands its resource to the caller unseen)
MayBeValidated(resource) ==
  \/ \E key \in DOMAIN pools : \E i \in DOMAIN pools[key] : pools[key][i] = resource
  \/ \E i \in DOMAIN mq :
       mq[i].resource = resource /\ mq[i].kind \in {"processCatch", "processThen"}

Break(resource) ==
  /\ resource \notin broken
  /\ MayBeValidated(resource)
  /\ broken' = broken \cup {resource}
  /\ UNCHANGED <<maxSize, pools, acquireRequests, activeResourceCounts, request, mq,
                 creating, callKey, results, created, held, destroyed, recycled, stale>>

\* the steps of the pool used with the keys of keySet
Step(keySet, maxCalls, maxResources) ==
  \/ \E key \in keySet : Acquire(key, maxCalls)
  \/ \E p \in creating : FactoryResolve(p, maxResources)
  \/ \E p \in creating : FactoryReject(p)
  \/ Microtask
  \/ \E c \in DOMAIN request : Timeout(c)
  \/ \E resource \in Resources : \E working \in BOOLEAN : Release(resource, working)
  \/ \E key \in keySet : Purge(key)
  \/ PurgeAll
  \/ \E resource \in Resources : Break(resource)

Next == Step(OneKey, MaxCalls, MaxResources)

Spec == Init /\ [][Next]_vars

\* the scheduling the event loop and the collaborators provide: as long as a
\* promise reaction job waits, a timer is armed or a promise of the factory is
\* not settled, one of them has its turn
FactorySettles(p) == FactoryResolve(p, MaxResourcesLive) \/ FactoryReject(p)

EventLoopTurn ==
  \/ Microtask
  \/ \E c \in DOMAIN request : Timeout(c)
  \/ \E p \in creating : FactorySettles(p)

Fairness == WF_vars(EventLoopTurn)

NextLive == Step(OneKey, MaxCallsLive, MaxResourcesLive)

FairSpec == Init /\ [][NextLive]_vars /\ Fairness

\* two holders and two queued requests: config.maxSize = 2
InitFifo == Init /\ maxSize = 2

NextFifo == Step(OneKey, MaxCallsFifo, MaxResourcesFifo)

SpecFifo == InitFifo /\ [][NextFifo]_vars
\* ---- what the claims speak of ----------------------------------------------
\* the places of resource r: in an idle list, carried by a promise reaction
\* job towards a caller or a pending request, held by a caller, destroyed
IdlePlaces(r) ==
  UNION {{<<key, i>> : i \in {j \in DOMAIN pools[key] : pools[key][j] = r}} :
           key \in DOMAIN pools}
IsIdle(r) == IdlePlaces(r) # {}
InTransit(r) == {i \in DOMAIN mq : mq[i].resource = r}

\* the resources of key that callers hold: delivered and not yet released
RECURSIVE HeldUpTo(_, _)
HeldUpTo(key, n) ==
  IF n = 0 THEN 0
  ELSE HeldUpTo(key, n - 1) + (IF created[n] = key THEN held[n] ELSE 0)
HeldCount(key) == HeldUpTo(key, Len(created))

\* C1: with maxSize > 0, activeResourceCount(key) <= maxSize for every key in
\* every reachable state
ActiveWithinMaxSize ==
  maxSize > 0 => \A key \in Keys : activeResourceCount(St, key) <= maxSize

\* C2: every resource the factory has produced is in exactly one place: once in
\* its key's idle list, held by one caller, in transit in one promise reaction
\* job, or passed to destroy once
ResourceInOnePlace ==
  \A r \in Resources :
    /\ Cardinality(IdlePlaces(r)) + held[r] + Cardinality(InTransit(r))
         + Len(destroyed[r]) = 1
    /\ \A place \in IdlePlaces(r) : place[1] = created[r]

\* C2 witness: a resource obtained for a timed-out request lies in the idle
\* list, while another resource is held by a caller and a third was destroyed
ResourceInOnePlaceWitness ==
  \E r1, r2, r3 \in Resources :
    /\ IsIdle(r1) /\ r1 \in recycled
    /\ held[r2] = 1
    /\ Len(destroyed[r3]) = 1

\* C3: the caller's promise callbacks of a PendingRequest are invoked at most
\* once in total, exactly when the request is completed, however many times
\* resolve and reject are called on it
CompletedAtMostOnce ==
  \A c \in DOMAIN request :
    /\ Len(results[c]) <= 1
    /\ request[c].completed <=> Len(results[c]) = 1
    /\ request[c].calls >= 1 <=> request[c].completed

\* C3 witness: reject was called on a request its timeout had already failed
CompletedAtMostOnceWitness ==
  \E c \in DOMAIN request : request[c].calls = 2 /\ results[c] = <<"timeout">>

\* C4: activeResourceCount(key) equals the number of resources of key delivered
\* to callers and not yet released
ActiveCountIsHeldCount ==
  \A key \in Keys : activeResourceCount(St, key) = HeldCount(key)

\* C5: a request queued after another request of the same key is never
\* resolved with a resource before the earlier one has been completed
\* (requests are queued in the order of their acquire calls)
FifoResolution ==
  \A c1, c2 \in DOMAIN request :
    (c1 < c2 /\ callKey[c1] = callKey[c2] /\ results[c2] = <<"resource">>)
      => request[c1].completed
\* the promise reaction jobs waiting for call c
JobsOf(queue, c) == {i \in DOMAIN queue : queue[i].call = c}
Range(seq) == {seq[i] : i \in DOMAIN seq}
IdleList(pool, key) == IF key \in DOMAIN pool THEN pool[key] ELSE <<>>

\* the event loop runs the .then callback of _processPendingAcquireRequests for
\* request c with resource r (a call has one reaction job at a time)
ProcessThenRuns(c, r) ==
  /\ mq # <<>>
  /\ Head(mq).kind = "processThen" /\ Head(mq).call = c /\ Head(mq).resource = r
  /\ JobsOf(mq', c) = {}

\* C6: a resource obtained for a request that timed out while the acquisition
\* was in progress goes through _release: right after, it is in the idle list,
\* on its way to the next pending request, or destroyed (only when it is not
\* valid or the key has no idle list); the timed-out caller does not get it
TimedOutResourceRecycled ==
  [][\A c \in DOMAIN request : \A r \in Resources :
       (ProcessThenRuns(c, r) /\ request[c].completed) =>
         LET key == callKey[c]
             queue == IdleList(acquireRequests, key)
         IN  /\ results'[c] = <<"timeout">>
             /\ held'[r] = 0
             /\ \/ r \in Range(IdleList(pools', key))
                \/ /\ queue # <<>>
                   /\ \E i \in DOMAIN mq' :
                        mq'[i] = Job("processCatch", Head(queue), "resolved", r, FALSE)
                \/ /\ destroyed'[r] # <<>>
                   /\ r \in broken \/ key \notin DOMAIN pools]_vars

\* C6 witness: the resource obtained for a timed-out request is on its way to
\* the next pending request
TimedOutResourceRecycledWitness ==
  \E r \in recycled : \E i \in DOMAIN mq :
    /\ mq[i].resource = r /\ mq[i].kind = "processCatch"
    /\ \E c \in DOMAIN request : results[c] = <<"timeout">> /\ c < mq[i].call

\* C8: a resource that was checked out when its key was purged is never put
\* into the idle list by its later release
StaleNeverIdle == \A r \in stale : ~IsIdle(r)

\* C9: a resource leaves the idle list in an acquisition either not valid, and
\* then it is destroyed and goes to nobody, or valid, and then it is the one
\* handed on; every resource popped before the one handed on was not valid, and
\* when no popped resource was valid the idle list is empty afterwards
IdleValidatedOnPop ==
  [][\A key \in Keys : \A r \in Resources :
       (/\ r \in Range(IdleList(pools, key))
        /\ key \in DOMAIN pools'
        /\ r \notin Range(pools'[key])) =>
         LET left == Range(pools[key]) \ Range(pools'[key])
         IN  /\ held'[r] = held[r]
             /\ r \in broken =>
                  /\ destroyed'[r] = Append(destroyed[r], "evicted")
                  /\ (InTransit(r))' = {}
             /\ r \notin broken =>
                  /\ destroyed'[r] = destroyed[r]
                  /\ \E i \in DOMAIN mq' :
                       /\ mq'[i].resource = r /\ mq'[i].promise = "resolved"
                       /\ (InTransit(r))' = {i}
                  /\ left \ {r} \subseteq broken
                  /\ \A i, j \in DOMAIN pools[key] :
                       (pools[key][i] = r /\ j > i) => pools[key][j] \in left
             /\ left \subseteq broken => pools'[key] = <<>>]_vars

\* C9 witness: an idle resource that was not valid has been destroyed by the
\* pop loop and a valid one popped from the idle list is being handed on
IdleValidatedOnPopWitness ==
  \E r \in Resources : \E i \in DOMAIN mq :
    /\ destroyed[r] = <<"evicted">>
    /\ mq[i].promise = "resolved" /\ mq[i].resource \notin {0, r}

\* the event loop runs the reaction job that carries the factory's rejection
\* for call c
RejectionRuns(c) ==
  /\ mq # <<>>
  /\ Head(mq).call = c /\ Head(mq).rejected
  /\ \A i \in JobsOf(mq', c) : ~mq'[i].rejected

\* C10 as claimed: the factory's error is delivered to the party the creation
\* ran for and the active counters stay as they were
FactoryErrorDelivered ==
  [][\A c \in Calls :
       RejectionRuns(c) =>
         /\ results'[c] = <<"factoryError">>
         /\ activeResourceCounts' = activeResourceCounts]_vars

\* C10 as amended: the factory's error is delivered to the direct caller and
\* to a pending request that is not yet completed; a request its timeout has
\* already failed keeps that outcome; the active counters stay as they were,
\* also in the step in which the factory's promise is rejected
FactoryErrorDeliveredUnlessCompleted ==
  [][/\ \A c \in Calls :
          RejectionRuns(c) =>
            /\ IF c \in DOMAIN request /\ request[c].completed
                 THEN results'[c] = results[c] /\ results[c] = <<"timeout">>
                 ELSE results'[c] = <<"factoryError">>
            /\ activeResourceCounts' = activeResourceCounts
     /\ (/\ creating' \subseteq creating /\ creating' # creating
         /\ mq'[Len(mq')].rejected)
          => activeResourceCounts' = activeResourceCounts]_vars

\* C10 witness: a direct caller and a pending request have both been given the
\* factory's error
FactoryErrorDeliveredWitness ==
  /\ \E c \in Calls \ DOMAIN request : results[c] = <<"factoryError">>
  /\ \E c \in DOMAIN request : results[c] = <<"factoryError">>

\* C7: every acquire call settles, and with one outcome: a resource, the
\* factory's error or the acquisition-timeout error
AcquireSettlesOnce ==
  /\ [](\A c \in Calls :
          /\ Len(results[c]) <= 1
          /\ Range(results[c]) \subseteq {"resource", "factoryError", "timeout"})
  /\ \A c \in 1..MaxCallsLive :
       (c \in Calls) ~> (c \in Calls /\ Len(results[c]) = 1)

\* C7 witness: one call has settled with a resource, which has since been
\* released and destroyed, and the call that waited behind it has settled with
\* the timeout error
AcquireSettlesOnceWitness ==
  \E c1, c2 \in Calls, r \in Resources :
    /\ results[c1] = <<"resource">>
    /\ results[c2] = <<"timeout">>
    /\ destroyed[r] # <<>>

\* no acquisition is in progress: no promise reaction job waits and no promise
\* of the factory is unsettled
Quiescent == mq = <<>> /\ creating = {}

\* the requests of key that wait in its pending queue
Queued(key) == Range(IdleList(acquireRequests, key))

\* C11: in a quiescent state a key with no idle resources, no active resources
\* and no pending requests has no entry in _pools, in _acquireRequests or in
\* _activeResourceCounts
QuiescentKeyCleanedUp ==
  \A key \in Keys :
    (/\ Quiescent
     /\ IdleList(pools, key) = <<>>
     /\ activeResourceCount(St, key) = 0 /\ HeldCount(key) = 0
     /\ Queued(key) = {})
      => /\ key \notin DOMAIN pools
         /\ key \notin DOMAIN acquireRequests
         /\ key \notin DOMAIN activeResourceCounts

\* the timer of request c fires: the timeout callback of acquire runs (a
\* reaction job that completes c clears the timer with a job leaving mq)
TimerFires(c) ==
  /\ c \in DOMAIN request /\ request[c].timeoutId = "armed"
  /\ mq = <<>>
  /\ request'[c].timeoutId = "off"

\* C12: when the timer of a pending request fires, the request leaves the
\* pending queue of its key if it is there, the other requests stay queued in
\* their order, and the request, if not yet completed, is rejected with the
\* timeout error (a completed one is left as it is); nothing but its own timer
\* gives a request the timeout error
TimeoutFailsRequest ==
  [][\A c \in Calls :
       /\ TimerFires(c) =>
            LET key == callKey[c]
            IN  /\ c \notin (Queued(key))'
                /\ key \in DOMAIN acquireRequests =>
                     acquireRequests'[key] = RemoveRequest(acquireRequests[key], c)
                /\ request'[c].completed
                /\ IF request[c].completed
                     THEN results'[c] = results[c]
                     ELSE results'[c] = <<"timeout">>
                /\ \A d \in Calls \ {c} : results'[d] = results[d]
                /\ UNCHANGED <<pools, activeResourceCounts, mq, creating, held, destroyed>>
       /\ (c \in DOMAIN results /\ results'[c] # results[c]
           /\ results'[c][Len(results'[c])] = "timeout") => TimerFires(c)]_vars

\* C12 witness: the timer of a request that a release had taken from the queue
\* has failed it, and another request has been failed while queued
TimeoutFailsRequestWitness ==
  \E c1, c2 \in DOMAIN request :
    /\ c1 # c2
    /\ results[c1] = <<"timeout">> /\ results[c2] = <<"timeout">>
    /\ \E r \in recycled : created[r] = callKey[c1]

\* a caller invokes the release hook of resource once more: the resource was
\* handed to a caller and released, which left it idle or destroyed, it has not
\* been acquired again since, and this is the first such call
ReleaseAgain(resource) ==
  /\ held[resource] = 0
  /\ InTransit(resource) = {}
  /\ resource \notin recycled
  /\ Cardinality(IdlePlaces(resource)) + Len(destroyed[resource]) = 1
  /\ Apply(_release(St, created[resource], resource))
  /\ UNCHANGED <<maxSize, callKey, created>>

NextDouble ==
  \/ Step(OneKey, MaxCallsDouble, MaxResourcesDouble)
  \/ \E resource \in Resources : ReleaseAgain(resource)

SpecDouble == Init /\ [][NextDouble]_vars

\* C13: a second release of a resource that was not acquired again does not add
\* it to the idle list again: no idle list holds a resource twice
DoubleReleaseNotIdleTwice ==
  \A r \in Resources : Cardinality(IdlePlaces(r)) <= 1

\* a pool used with the two keys of Keys
NextKeys == Step(Keys, MaxCallsKeys, MaxResourcesKeys)

SpecKeys == Init /\ [][NextKeys]_vars

\* a step of purge or purgeAll that finds an idle list: of all steps only these
\* change this._pools and nothing of the callers' calls, the reaction jobs, the
\* factory's promises, the pending requests and the resources' validity
PurgeRuns ==
  /\ pools' # pools
  /\ UNCHANGED <<callKey, held, mq, creating, request, broken>>

\* the keys whose idle-list entry the step removes
Purged == DOMAIN pools \ DOMAIN pools'

\* C14: purge passes every resource of the key's idle list to destroy once and
\* removes the key's entry of _pools, so that has(key) is false and the next
\* _acquire(key) gets no idle resource; the active counters, the pending
\* queues, the idle lists of the other keys and the resources outside the
\* purged lists are left as they were
PurgeDestroysIdleOnly ==
  [][PurgeRuns =>
       /\ Purged # {}
       /\ \A key \in Purged :
            /\ ~has(St', key)
            /\ _acquire(St', key).resource = 0
            /\ (maxSize = 0 \/ activeResourceCount(St', key) < maxSize)
                 => _acquire(St', key).promise = "factory"
       /\ \A key \in DOMAIN pools' : pools'[key] = pools[key]
       /\ \A r \in Resources :
            destroyed'[r] =
              IF \E key \in Purged : r \in Range(pools[key])
                THEN Append(destroyed[r], "destroyed")
                ELSE destroyed[r]
       /\ UNCHANGED <<activeResourceCounts, acquireRequests, results>>]_vars

\* C14 witness: purge("A") has destroyed the idle resource of "A" and removed
\* the entry of "A", while "B" keeps its idle resource
PurgeDestroysIdleOnlyWitness ==
  /\ ~has(St, "A") /\ has(St, "B")
  /\ \E r \in Resources : created[r] = "A" /\ destroyed[r] = <<"destroyed">>
  /\ \E r \in Resources : created[r] = "B" /\ IsIdle(r)

\* the valid resources of the idle list of key
ValidIdle(key) == {r \in Range(IdleList(pools, key)) : r \notin broken}

\* what acquire(key) finds at the moment of the attempt: no valid idle resource
\* and the key at its capacity
Exhausted(key) ==
  /\ ValidIdle(key) = {}
  /\ maxSize # 0 /\ activeResourceCount(St, key) >= maxSize

\* the reaction job by which call c becomes a pending request
EnqueueJob(c) == Job("acquireThen", c, "resolved", 0, FALSE)

\* C15: the attempt of acquire(key) ends in the enqueuing of a pending request
\* exactly when it finds no valid idle resource and the key at its capacity;
\* otherwise it takes a valid idle resource or calls the factory and enqueues
\* nothing; a request enters a pending queue only that way, uncompleted and
\* with no outcome yet, and never with maxSize 0
EnqueuedOnlyWhenExhausted ==
  [][/\ callKey' # callKey =>
          LET c == Len(callKey) + 1
              key == callKey'[c]
          IN  /\ UNCHANGED <<acquireRequests, request>>
              /\ results'[c] = <<>>
              /\ Exhausted(key) =>
                   mq' = Append(mq, EnqueueJob(c)) /\ creating' = creating
              /\ (~Exhausted(key) /\ ValidIdle(key) # {}) =>
                   /\ \E r \in ValidIdle(key) :
                        mq' = Append(mq, Job("acquireThen", c, "resolved", r, FALSE))
                   /\ creating' = creating
              /\ (~Exhausted(key) /\ ValidIdle(key) = {}) =>
                   /\ creating' = creating \cup {[chain |-> "acquire", call |-> c]}
                   /\ mq' = mq
     /\ \A c \in Calls :
          LET key == callKey[c]
              enqueued == /\ mq # <<>> /\ Head(mq) = EnqueueJob(c)
                          /\ mq' = Tail(mq)
          IN  /\ (c \notin DOMAIN request /\ c \in DOMAIN request') <=> enqueued
              /\ (c \in (Queued(key))' /\ c \notin Queued(key)) <=> enqueued
              /\ enqueued =>
                   /\ acquireRequests'[key] = Append(IdleList(acquireRequests, key), c)
                   /\ ~request'[c].completed /\ results'[c] = <<>>
                   /\ maxSize # 0
                   /\ UNCHANGED <<pools, activeResourceCounts, creating, held>>]_vars

\* C15 witness: one call found the key at its capacity and is queued, after
\* another call was given the idle resource and no second resource was created
EnqueuedOnlyWhenExhaustedWitness ==
  /\ Len(created) = 1
  /\ \E c1, c2 \in Calls \ DOMAIN request :
       c1 # c2 /\ results[c1] = <<"resource">> /\ results[c2] = <<"resource">>
  /\ \E c \in DOMAIN request : c \in Queued(callKey[c]) /\ ~request[c].completed

\* C16: an idle list is a stack in the order of release: a step adds a resource
\* only at its end, and a valid resource that an acquisition takes from it is
\* the last valid one of the list, is the one handed on, and leaves the
\* resources before it in the list in their order
IdleReusedLastReleasedFirst ==
  [][\A key \in DOMAIN pools' :
       LET old == IdleList(pools, key)
           new == pools'[key]
       IN  /\ \/ \E n \in 0..Len(old) : new = SubSeq(old, 1, n)
              \/ \E r \in Resources : new = Append(old, r) /\ r \notin broken'
           /\ \A i \in DOMAIN old :
                (old[i] \notin broken /\ old[i] \notin Range(new)) =>
                  /\ \A j \in DOMAIN old : j > i => old[j] \in broken
                  /\ new = SubSeq(old, 1, i - 1)
                  /\ mq' # <<>> /\ mq'[Len(mq')].resource = old[i]
                  /\ mq'[Len(mq')].promise = "resolved"]_vars

\* C16 witness: an acquisition has taken a resource from an idle list in which
\* another valid resource, released before it, stays
IdleReusedLastReleasedFirstWitness ==
  \E key \in DOMAIN pools : \E i \in DOMAIN mq :
    /\ mq[i].promise = "resolved" /\ mq[i].kind = "acquireThen"
    /\ mq[i].resource # 0
    /\ pools[key] # <<>> /\ Range(pools[key]) \cap broken = {}
    /\ \A r \in Resources : held[r] = 0

\* C17: a completed PendingRequest has no armed timer, whether it was resolved,
\* rejected with the factory's error or failed by its timer
CompletedTimerCleared ==
  \A c \in DOMAIN request : request[c].completed => request[c].timeoutId # "armed"

\* C17 witness: one pending request has been resolved with a resource and
\* another rejected with the factory's error, both before their timers fired
CompletedTimerClearedWitness ==
  \E c1, c2 \in DOMAIN request :
    /\ results[c1] = <<"resource">> /\ request[c1].completed
    /\ results[c2] = <<"factoryError">> /\ request[c2].completed

\* the acquisition run made for request c by _processPendingAcquireRequests is
\* still under way: the factory's promise is unsettled or a reaction job waits
RunUnderWay(c) ==
  \/ [chain |-> "process", call |-> c] \in creating
  \/ \E i \in JobsOf(mq, c) : mq[i].kind \in {"processCatch", "processThen"}

\* C18: a pending request that a release has taken from the queue and whose
\* acquisition run is over is completed
DequeuedRequestCompleted ==
  \A c \in DOMAIN request :
    (c \notin Queued(callKey[c]) /\ ~RunUnderWay(c)) => request[c].completed

\* C19: in a quiescent state a key with an uncompleted request in its pending
\* queue is at its capacity: activeResourceCount(key) >= maxSize
QueuedOnlyAtCapacity ==
  \A key \in Keys :
    (Quiescent /\ \E c \in Queued(key) : ~request[c].completed)
      => activeResourceCount(St, key) >= maxSize

\* C20: every pending queue holds only uncompleted requests, each at most once
QueueHoldsUncompletedOnce ==
  \A key \in DOMAIN acquireRequests :
    LET requests == acquireRequests[key]
    IN  /\ \A i \in DOMAIN requests :
             /\ requests[i] \in DOMAIN request
             /\ ~request[requests[i]].completed
             /\ results[requests[i]] = <<>>
        /\ \A i, j \in DOMAIN requests : requests[i] = requests[j] => i = j

\* C20 witness: a request still waits in the queue from which an earlier
\* request was removed when its timeout failed it
QueueHoldsUncompletedOnceWitness ==
  \E c1, c2 \in DOMAIN request :
    /\ c1 < c2 /\ callKey[c1] = callKey[c2]
    /\ results[c1] = <<"timeout">>
    /\ c2 \in Queued(callKey[c2])
====
